---- MODULE Spec2Model ----
(***************************************************************************)
(* Model of app.py: the Gemini model resolution that runs at import time   *)
(* (lines 69-128) and the two request handlers translate_text (237-252)    *)
(* and define_word (254-313).                                              *)
(*                                                                         *)
(* Python strings are sequences of one-character strings.  A Python value  *)
(* that may be None is a record [present, val].                            *)
(***************************************************************************)
EXTENDS Integers, Sequences, FiniteSets, Bags, TLC

VARIABLES
  GEMINI_API_KEY,    \* os.environ.get('GEMINI_API_KEY'), line 70
  GEMINI_MODEL,      \* os.environ.get('GEMINI_MODEL'), line 71
  active_model,      \* None or the GenerativeModel object, lines 72 and 125
  model_name,        \* line 73 and 124
  available_models,  \* line 80
  target_model,      \* line 89
  list_error,        \* "Error listing models" was printed, line 87
  config_error,      \* "Error configuring Gemini" was printed, line 128
  pc,                \* position in the import-time code, then "serving"
  last,              \* the latest request and what its handler did
  in_flight,         \* requests waiting inside generate_content, lines 248 / 309
  raw_text,          \* response.text handed to the sanitizer, line 310
  clean_text,        \* the sanitizer's result, line 310
  clean_again,       \* the sanitizer applied to its own result
  cpc                \* number of sanitizer applications so far

vars ==
  <<GEMINI_API_KEY, GEMINI_MODEL, active_model, model_name, available_models,
    target_model, list_error, config_error, pc, last, in_flight,
    raw_text, clean_text, clean_again, cpc>>

\* ------------------------------------------------------------------ bounds
\* longest listing list_models() enumerates before requests are served
MaxModels == 1
\* longest listing list_models() enumerates when only the import-time code runs
MaxCatalog == 2
\* number of pieces an upstream reply text is concatenated from
MaxPieces == 3
\* requests that may wait inside generate_content at the same time
MaxInFlight == 2

\* ------------------------------------------------------- string primitives
UpperLetters ==
  <<"A","B","C","D","E","F","G","H","I","J","K","L","M",
    "N","O","P","Q","R","S","T","U","V","W","X","Y","Z">>

LowerLetters ==
  <<"a","b","c","d","e","f","g","h","i","j","k","l","m",
    "n","o","p","q","r","s","t","u","v","w","x","y","z">>

\* one character of str.lower()
LowerChar(c) ==
  IF \E i \in 1..26 : UpperLetters[i] = c
  THEN LowerLetters[CHOOSE i \in 1..26 : UpperLetters[i] = c]
  ELSE c

\* str.lower()
Lower(s) == [i \in 1..Len(s) |-> LowerChar(s[i])]

\* Python's  sub in s
Contains(sub, s) ==
  \E i \in 1..(Len(s) - Len(sub) + 1) : SubSeq(s, i, i + Len(sub) - 1) = sub

\* str.startswith(p)
StartsWith(s, p) ==
  Len(s) >= Len(p) /\ SubSeq(s, 1, Len(p)) = p

\* str.replace(old, new): every non-overlapping occurrence, scanning from
\* the left (old is never empty in this program)
RECURSIVE Replace(_, _, _)
Replace(s, old, new) ==
  IF Len(s) < Len(old) THEN s
  ELSE IF SubSeq(s, 1, Len(old)) = old
       THEN new \o Replace(SubSeq(s, Len(old) + 1, Len(s)), old, new)
       ELSE <<Head(s)>> \o Replace(Tail(s), old, new)

\* str.replace(old, new, 1): the first occurrence only
RECURSIVE ReplaceFirst(_, _, _)
ReplaceFirst(s, old, new) ==
  IF Len(s) < Len(old) THEN s
  ELSE IF SubSeq(s, 1, Len(old)) = old
       THEN new \o SubSeq(s, Len(old) + 1, Len(s))
       ELSE <<Head(s)>> \o ReplaceFirst(Tail(s), old, new)

\* --------------------------------------------------------- string literals
STR_PRO == <<"p","r","o">>
STR_FLASH == <<"f","l","a","s","h">>
STR_15 == <<"1",".","5">>
STR_MODELS == <<"m","o","d","e","l","s","/">>
STR_GEMINI == <<"g","e","m","i","n","i","-">>
STR_UNKNOWN == <<"U","n","k","n","o","w","n">>
\* The grave accent (U+0060) cannot be written inside a TLA+ string; the one
\* character is written as the token "BQ" (one element of a sequence).
BQ == "BQ"

\* the fence marker: three grave accents
STR_FENCE == <<BQ, BQ, BQ>>
STR_HTML == <<"h","t","m","l">>
STR_FENCE_HTML == STR_FENCE \o STR_HTML

\* 'gemini-1.5-flash', the literal of line 121
DEFAULT_MODEL == STR_GEMINI \o STR_15 \o <<"-">> \o STR_FLASH

\* ------------------------------------------------------- optional values
None == [present |-> FALSE, val |-> <<>>]

Some(s) == [present |-> TRUE, val |-> s]

\* Python truthiness of an optional string: None and '' are falsy
Truthy(o) == o.present /\ o.val # <<>>

\* -------------------------------------------------------------- inputs
\* values of an environment variable: unset, set to '', set to a string
EnvKeys == {None, Some(<<>>), Some(<<"k","e","y">>)}

EnvModels ==
  {None, Some(<<>>), Some(STR_MODELS \o <<"m","y">>)}

\* model ids the provider may report
ModelNames ==
  { STR_MODELS \o STR_GEMINI \o STR_15 \o <<"-">> \o STR_PRO,
    STR_GEMINI \o STR_PRO }

\* a wider choice of ids for the import-time code on its own
CatalogNames ==
  ModelNames \cup
  { STR_MODELS \o STR_GEMINI \o STR_15 \o <<"-">> \o STR_FLASH,
    STR_MODELS \o STR_GEMINI \o STR_15 \o <<"-","F","l","a","s","h">>,
    STR_MODELS \o <<"m">> \o STR_MODELS \o <<"o","d","e","l","s","/","z">>,
    STR_MODELS \o STR_GEMINI \o <<"1",".","0","-">> \o STR_PRO,
    STR_MODELS \o <<"a","q","a">>,
    STR_MODELS \o <<"x","/">> \o STR_MODELS \o <<"y">> }

MethodSets == { {"generateContent", "countTokens"}, {"embedContent"} }

\* the objects genai.list_models() yields
DescriptorsOf(names) ==
  [name : names, supported_generation_methods : MethodSets]

\* what one enumeration of genai.list_models() would yield if it ran to the
\* end: at most n models named from names
ListingsOf(names, n) ==
  UNION { [1..k -> DescriptorsOf(names)] : k \in 0..n }

Listings == ListingsOf(ModelNames, MaxModels)

CatalogListings == ListingsOf(CatalogNames, MaxCatalog)

\* the enumeration completes
NoRaise == -1

\* --------------------------------------------------- model resolution
\* lines 80-84: the names of the yielded models that support generateContent,
\* in the order yielded
RECURSIVE AvailableOf(_)
AvailableOf(ms) ==
  IF ms = <<>> THEN <<>>
  ELSE (IF "generateContent" \in Head(ms).supported_generation_methods
        THEN <<Head(ms).name>> ELSE <<>>) \o AvailableOf(Tail(ms))

\* line 98 (the comprehension's condition; the list is SelectSeq)
IsPro15(m) == Contains(STR_PRO, Lower(m)) /\ Contains(STR_15, m)

\* line 103
IsFlash15(m) == Contains(STR_FLASH, Lower(m)) /\ Contains(STR_15, m)

\* line 108
IsPro(m) == Contains(STR_PRO, Lower(m))

\* lines 98-113: the pick from a non-empty available_models
PickFromCatalogFlashFirst(models) ==
  LET pros == SelectSeq(models, IsPro15)
      flashs == SelectSeq(models, IsFlash15)
      old_pros == SelectSeq(models, IsPro)
  IN IF flashs # <<>> THEN flashs[1]
     ELSE IF pros # <<>> THEN pros[1]
     ELSE IF old_pros # <<>> THEN old_pros[1]
     ELSE models[1]

PickFromCatalog(models) ==
  LET pros == SelectSeq(models, IsPro15)
      flashs == SelectSeq(models, IsFlash15)
      old_pros == SelectSeq(models, IsPro)
  IN IF pros # <<>> THEN pros[1]
     ELSE IF flashs # <<>> THEN flashs[1]
     ELSE IF old_pros # <<>> THEN old_pros[1]
     ELSE models[1]

\* lines 89-113: target_model after the if / elif
SelectTargetCatalogFirst(override, models) ==
  IF models # <<>> THEN Some(PickFromCatalog(models))
  ELSE IF Truthy(override) THEN Some(override.val)
  ELSE None

SelectTarget(override, models) ==
  IF Truthy(override) THEN Some(override.val)
  ELSE IF models # <<>> THEN Some(PickFromCatalog(models))
  ELSE None

\* lines 116-117
CleanName(name) ==
  IF StartsWith(name, STR_MODELS) THEN Replace(name, STR_MODELS, <<>>)
  ELSE name

\* lines 120-121
WithDefault(target) ==
  IF ~Truthy(target) THEN Some(DEFAULT_MODEL) ELSE target

\* ------------------------------------------------------------ sanitizer
\* line 310 with each replace limited to its first occurrence
SanitizeFirstOnly(raw) ==
  ReplaceFirst(ReplaceFirst(raw, STR_FENCE_HTML, <<>>), STR_FENCE, <<>>)

\* line 310: response.text.replace('```html', '').replace('```', '')
Sanitize(raw) ==
  Replace(Replace(raw, STR_FENCE_HTML, <<>>), STR_FENCE, <<>>)

\* ------------------------------------------------------ request inputs
FieldValues == { <<>>, <<"h","i">> }

\* the values a key of the JSON object takes; context only fills the prompt
\* (line 265) and is left out or given
ValuesOf(key) ==
  IF key = "context" THEN { <<"h","i">> } ELSE FieldValues

\* request.json: a JSON object with some of the given keys, a JSON value
\* that is not an object, or a body that is not JSON at all
BodiesOver(keys) ==
  { [kind |-> "object", fields |-> f] :
      f \in UNION { { g \in [d -> FieldValues] :
                        \A k \in d : g[k] \in ValuesOf(k) } :
                    d \in SUBSET keys } }
  \cup { [kind |-> "not_object", fields |-> <<>>],
         [kind |-> "not_json", fields |-> <<>>] }

\* dict.get(key, '')
Get(fields, key) ==
  IF key \in DOMAIN fields THEN fields[key] ELSE <<>>

ReplyTexts ==
  { <<>>, STR_FENCE_HTML \o <<"o","k">> \o STR_FENCE }

\* what active_model.generate_content(prompt) does: raises, returns a
\* response whose .text is a string, or one whose .text is None
UpstreamOutcomes ==
  { [kind |-> "raises", text |-> <<"e","r","r">>],
    [kind |-> "no_text", text |-> <<>>] }
  \cup { [kind |-> "text", text |-> t] : t \in ReplyTexts }

\* generate_content was not called
NoCall == [kind |-> "no_call", text |-> <<>>]

\* str(e) of the AttributeError raised by None.replace, line 310:
\* 'NoneType' object has no attribute 'replace'
STR_ATTRIBUTE_ERROR ==
  <<"'","N","o","n","e","T","y","p","e","'"," ",
    "o","b","j","e","c","t"," ","h","a","s"," ",
    "n","o"," ","a","t","t","r","i","b","u","t",
    "e"," ","'","r","e","p","l","a","c","e","'">>

\* what a handler did with a request: called is whether generate_content was
\* invoked; key is the JSON key of the returned body, or "exception" when an
\* exception left the handler
Outcome(route, body, upstream, status, key, msg, model, text) ==
  [route |-> route, body |-> body, called |-> upstream # NoCall,
   upstream |-> upstream, status |-> status, key |-> key, msg |-> msg,
   model |-> model, text |-> text]

NoRequest ==
  Outcome("none", [kind |-> "not_json", fields |-> <<>>], NoCall,
          0, "none", "", <<>>, <<>>)

\* lines 242-243 and 259-261 are outside the try: request.json raises
\* BadRequest for a body that is not JSON (the framework answers 400), and
\* data.get raises AttributeError for JSON that is not an object (the
\* framework answers 500); neither answer is built by the handler
BodyException(route, body) ==
  Outcome(route, body, NoCall,
          IF body.kind = "not_json" THEN 400 ELSE 500, "exception",
          IF body.kind = "not_json" THEN "BadRequest" ELSE "AttributeError",
          <<>>, <<>>)

\* lines 252 and 313
ApiError(route, body, up, text) ==
  Outcome(route, body, up, 500, "error", "API Error", model_name, text)

\* lines 239-252 without the guard of line 240
translate_textNoGuard(body, up) ==
  IF body.kind # "object" THEN BodyException("translate", body)
  ELSE IF Get(body.fields, "text") = <<>>
  THEN Outcome("translate", body, NoCall, 400, "error",
               "No text provided", <<>>, <<>>)
  ELSE IF up.kind = "raises" THEN ApiError("translate", body, up, up.text)
  ELSE IF up.kind = "text" /\ up.text # <<>>
  THEN Outcome("translate", body, up, 200, "translation", "", <<>>, up.text)
  ELSE Outcome("translate", body, up, 500, "error",
               "Empty response", <<>>, <<>>)

\* lines 239-252 without the check of line 244
translate_textNoValidation(body, up) ==
  IF ~active_model.present
  THEN Outcome("translate", body, NoCall, 500, "error",
               "Server Error: Model not initialized.", <<>>, <<>>)
  ELSE IF body.kind # "object" THEN BodyException("translate", body)
  ELSE IF up.kind = "raises" THEN ApiError("translate", body, up, up.text)
  ELSE IF up.kind = "text" /\ up.text # <<>>
  THEN Outcome("translate", body, up, 200, "translation", "", <<>>, up.text)
  ELSE Outcome("translate", body, up, 500, "error",
               "Empty response", <<>>, <<>>)

\* lines 239-252 without the else of line 250
translate_textNoEmptyCheck(body, up) ==
  IF ~active_model.present
  THEN Outcome("translate", body, NoCall, 500, "error",
               "Server Error: Model not initialized.", <<>>, <<>>)
  ELSE IF body.kind # "object" THEN BodyException("translate", body)
  ELSE IF Get(body.fields, "text") = <<>>
  THEN Outcome("translate", body, NoCall, 400, "error",
               "No text provided", <<>>, <<>>)
  ELSE IF up.kind = "raises" THEN ApiError("translate", body, up, up.text)
  ELSE Outcome("translate", body, up, 200, "translation", "", <<>>, up.text)

\* lines 239-252
translate_text(body, up) ==
  IF ~active_model.present
  THEN Outcome("translate", body, NoCall, 500, "error",
               "Server Error: Model not initialized.", <<>>, <<>>)
  ELSE IF body.kind # "object" THEN BodyException("translate", body)
  ELSE IF Get(body.fields, "text") = <<>>
  THEN Outcome("translate", body, NoCall, 400, "error",
               "No text provided", <<>>, <<>>)
  ELSE IF up.kind = "raises" THEN ApiError("translate", body, up, up.text)
  ELSE IF up.kind = "text" /\ up.text # <<>>
  THEN Outcome("translate", body, up, 200, "translation", "", <<>>, up.text)
  ELSE Outcome("translate", body, up, 500, "error",
               "Empty response", <<>>, <<>>)

\* lines 256-313: word and context only fill the prompt
define_word(body, up) ==
  IF ~active_model.present
  THEN Outcome("define", body, NoCall, 500, "error",
               "Model not initialized", <<>>, <<>>)
  ELSE IF body.kind # "object" THEN BodyException("define", body)
  ELSE IF up.kind = "raises" THEN ApiError("define", body, up, up.text)
  ELSE IF up.kind = "no_text"
  THEN ApiError("define", body, up, STR_ATTRIBUTE_ERROR)
  ELSE Outcome("define", body, up, 200, "definition", "", <<>>,
               Sanitize(up.text))

\* -------------------------------------------- import-time code, lines 70-128
SanitizerIdle ==
  /\ raw_text = <<>>
  /\ clean_text = <<>>
  /\ clean_again = <<>>
  /\ cpc = 0

Init ==
  /\ GEMINI_API_KEY \in EnvKeys
  /\ GEMINI_MODEL \in EnvModels
  /\ active_model = None
  /\ model_name = STR_UNKNOWN
  /\ available_models = <<>>
  /\ target_model = None
  /\ list_error = FALSE
  /\ config_error = FALSE
  /\ pc = "start"
  /\ last = NoRequest
  /\ in_flight = EmptyBag
  /\ SanitizerIdle

\* lines 75-77: without a key nothing is configured; genai.configure may raise,
\* which the except of line 127 catches
Configure ==
  /\ pc = "start"
  /\ IF ~Truthy(GEMINI_API_KEY)
     THEN pc' = "serving" /\ config_error' = config_error
     ELSE \E raises \in BOOLEAN :
            /\ config_error' = raises
            /\ pc' = IF raises THEN "serving" ELSE "list"
  /\ UNCHANGED <<GEMINI_API_KEY, GEMINI_MODEL, active_model, model_name,
                 available_models, target_model, list_error, last, in_flight,
                 raw_text, clean_text, clean_again, cpc>>

\* lines 80-87: the enumeration yields the first k models of ms and then
\* raises, or (k = NoRaise) runs to the end; what was appended before the
\* exception stays in available_models
ListModelsFrom(listings) ==
  /\ pc = "list"
  /\ \E ms \in listings :
       \E k \in (0..Len(ms)) \cup {NoRaise} :
         /\ available_models' =
              AvailableOf(IF k = NoRaise THEN ms ELSE SubSeq(ms, 1, k))
         /\ list_error' = (k # NoRaise)
  /\ pc' = "select"
  /\ UNCHANGED <<GEMINI_API_KEY, GEMINI_MODEL, active_model, model_name,
                 target_model, config_error, last, in_flight,
                 raw_text, clean_text, clean_again, cpc>>

ListModels == ListModelsFrom(Listings)

ListCatalog == ListModelsFrom(CatalogListings)

\* lines 89-113; the cleanup of lines 115-117 belongs to the elif branch
SelectModel ==
  /\ pc = "select"
  /\ target_model' = SelectTarget(GEMINI_MODEL, available_models)
  /\ pc' = IF ~Truthy(GEMINI_MODEL) /\ available_models # <<>>
           THEN "cleanup" ELSE "default"
  /\ UNCHANGED <<GEMINI_API_KEY, GEMINI_MODEL, active_model, model_name,
                 available_models, list_error, config_error, last, in_flight,
                 raw_text, clean_text, clean_again, cpc>>

\* lines 115-117
Cleanup ==
  /\ pc = "cleanup"
  /\ target_model' = Some(CleanName(target_model.val))
  /\ pc' = "default"
  /\ UNCHANGED <<GEMINI_API_KEY, GEMINI_MODEL, active_model, model_name,
                 available_models, list_error, config_error, last, in_flight,
                 raw_text, clean_text, clean_again, cpc>>

\* lines 119-128: the default, then model_name (line 124), then the
\* constructor (line 125); it is inside the try of line 76, so when it raises
\* the except of line 127 prints the error, model_name keeps the name stored
\* by line 124 and active_model stays None
CreateModel ==
  /\ pc = "default"
  /\ target_model' = WithDefault(target_model)
  /\ model_name' = target_model'.val
  /\ \E raises \in BOOLEAN :
       /\ active_model' = IF raises THEN active_model
                          ELSE Some(target_model'.val)
       /\ config_error' = raises
  /\ pc' = "serving"
  /\ UNCHANGED <<GEMINI_API_KEY, GEMINI_MODEL, available_models, list_error,
                 last, in_flight, raw_text, clean_text, clean_again, cpc>>

\* ------------------------------------------------------ request handlers
\* Requests are served by concurrent threads.  A handler runs up to its
\* return, or up to the blocking call of generate_content (lines 248 / 309);
\* while it waits there other requests are served.  The handler's second
\* step takes what generate_content did and builds the answer.

\* some outcome of generate_content, to ask a handler whether it makes the call
AnyOutcome == CHOOSE up \in UpstreamOutcomes : TRUE

\* the handler reaches line 248 with this body
translate_calls(body) == translate_text(body, AnyOutcome).called

\* the handler reaches line 309 with this body
define_calls(body) == define_word(body, AnyOutcome).called

Waiting(route, body) == [route |-> route, body |-> body]

\* POST /api/translate from an authenticated caller, lines 240-248: answers
\* at once or enters generate_content
Translate ==
  /\ pc = "serving"
  /\ \E body \in BodiesOver({"text"}) :
       IF translate_calls(body)
       THEN /\ BagCardinality(in_flight) < MaxInFlight
            /\ in_flight' = in_flight (+) SetToBag({Waiting("translate", body)})
            /\ last' = last
       ELSE /\ last' = translate_text(body, NoCall)
            /\ in_flight' = in_flight
  /\ UNCHANGED <<GEMINI_API_KEY, GEMINI_MODEL, active_model, model_name,
                 available_models, target_model, list_error, config_error,
                 pc, raw_text, clean_text, clean_again, cpc>>

\* lines 248-252: generate_content returns or raises and the handler answers
TranslateReturn ==
  /\ pc = "serving"
  /\ \E w \in BagToSet(in_flight), up \in UpstreamOutcomes :
       /\ w.route = "translate"
       /\ last' = translate_text(w.body, up)
       /\ in_flight' = in_flight (-) SetToBag({w})
  /\ UNCHANGED <<GEMINI_API_KEY, GEMINI_MODEL, active_model, model_name,
                 available_models, target_model, list_error, config_error,
                 pc, raw_text, clean_text, clean_again, cpc>>

\* POST /api/define from an authenticated caller, lines 257-309: answers at
\* once or enters generate_content
Define ==
  /\ pc = "serving"
  /\ \E body \in BodiesOver({"word", "context"}) :
       IF define_calls(body)
       THEN /\ BagCardinality(in_flight) < MaxInFlight
            /\ in_flight' = in_flight (+) SetToBag({Waiting("define", body)})
            /\ last' = last
       ELSE /\ last' = define_word(body, NoCall)
            /\ in_flight' = in_flight
  /\ UNCHANGED <<GEMINI_API_KEY, GEMINI_MODEL, active_model, model_name,
                 available_models, target_model, list_error, config_error,
                 pc, raw_text, clean_text, clean_again, cpc>>

\* lines 309-313: generate_content returns or raises and the handler answers
DefineReturn ==
  /\ pc = "serving"
  /\ \E w \in BagToSet(in_flight), up \in UpstreamOutcomes :
       /\ w.route = "define"
       /\ last' = define_word(w.body, up)
       /\ in_flight' = in_flight (-) SetToBag({w})
  /\ UNCHANGED <<GEMINI_API_KEY, GEMINI_MODEL, active_model, model_name,
                 available_models, target_model, list_error, config_error,
                 pc, raw_text, clean_text, clean_again, cpc>>

Next ==
  \/ Configure
  \/ ListModels
  \/ SelectModel
  \/ Cleanup
  \/ CreateModel
  \/ Translate
  \/ TranslateReturn
  \/ Define
  \/ DefineReturn

Spec == Init /\ [][Next]_vars

\* the import-time code on its own, over the wider catalogs
NextResolve ==
  \/ Configure
  \/ ListCatalog
  \/ SelectModel
  \/ Cleanup
  \/ CreateModel

SpecResolve == Init /\ [][NextResolve]_vars

\* ------------------------------------- the sanitizer as a pure function
Pieces ==
  { <<BQ>>, <<BQ, BQ>>, STR_FENCE_HTML, STR_HTML, <<"h","t">>, <<"m","l">>,
    <<"x">> }

\* concatenations of at most n pieces
RECURSIVE TextsOf(_)
TextsOf(n) ==
  IF n = 0 THEN { <<>> }
  ELSE LET shorter == TextsOf(n - 1)
       IN shorter \cup { p \o t : p \in Pieces, t \in shorter }

RawTexts == TextsOf(MaxPieces)

InitClean ==
  /\ GEMINI_API_KEY = None
  /\ GEMINI_MODEL = None
  /\ active_model = None
  /\ model_name = STR_UNKNOWN
  /\ available_models = <<>>
  /\ target_model = None
  /\ list_error = FALSE
  /\ config_error = FALSE
  /\ pc = "start"
  /\ last = NoRequest
  /\ in_flight = EmptyBag
  /\ raw_text \in RawTexts
  /\ clean_text = <<>>
  /\ clean_again = <<>>
  /\ cpc = 0

\* line 310 applied to response.text
CleanOnce ==
  /\ cpc = 0
  /\ clean_text' = Sanitize(raw_text)
  /\ cpc' = 1
  /\ UNCHANGED <<GEMINI_API_KEY, GEMINI_MODEL, active_model, model_name,
                 available_models, target_model, list_error, config_error,
                 pc, last, in_flight, raw_text, clean_again>>

\* line 310 applied to its own result
CleanTwice ==
  /\ cpc = 1
  /\ clean_again' = Sanitize(clean_text)
  /\ cpc' = 2
  /\ UNCHANGED <<GEMINI_API_KEY, GEMINI_MODEL, active_model, model_name,
                 available_models, target_model, list_error, config_error,
                 pc, last, in_flight, raw_text, clean_text>>

NextClean ==
  \/ CleanOnce
  \/ CleanTwice

SpecClean == InitClean /\ [][NextClean]_vars

\* ================================================================ claims
\* the gateway went through configuration and holds a model object
Configured == pc = "serving" /\ active_model.present

\* the gateway finished its import-time code without a model object
Unconfigured == pc = "serving" /\ ~active_model.present

\* C1: a non-empty GEMINI_MODEL is the resolved model, unchanged, whatever
\* the listing returned (nothing, a failure, or models the rules would pick);
\* target_model is set once the resolution of lines 89-124 has run, and the
\* model object, when the constructor made one, is for that name
C1_OverrideIsResolved ==
  (pc = "serving" /\ Truthy(GEMINI_MODEL) /\ target_model.present)
  => /\ model_name = GEMINI_MODEL.val
     /\ target_model = Some(GEMINI_MODEL.val)
     /\ active_model \in {None, Some(GEMINI_MODEL.val)}
     /\ ~config_error => active_model = Some(GEMINI_MODEL.val)

C1_Witness ==
  /\ Configured
  /\ Truthy(GEMINI_MODEL)
  /\ StartsWith(GEMINI_MODEL.val, STR_MODELS)
  /\ Len(available_models) = 2
  /\ \A i \in 1..2 : available_models[i] # GEMINI_MODEL.val
  /\ \E i \in 1..2 : Contains(STR_PRO, available_models[i])
  /\ model_name = GEMINI_MODEL.val

\* the three preference rules as the specification words them
RuleHolds(k, id) ==
  CASE k = 1 -> Contains(STR_PRO, Lower(id)) /\ Contains(STR_15, id)
    [] k = 2 -> Contains(STR_FLASH, Lower(id)) /\ Contains(STR_15, id)
    [] k = 3 -> Contains(STR_PRO, Lower(id))

Least(S) == CHOOSE x \in S : \A y \in S : x <= y

\* the first entry matched by the first rule that matches any entry, else
\* the first entry
ExpectedPick(catalog) ==
  LET matching ==
        { k \in 1..3 : \E i \in 1..Len(catalog) : RuleHolds(k, catalog[i]) }
  IN IF matching = {} THEN catalog[1]
     ELSE catalog[Least({ i \in 1..Len(catalog) :
                            RuleHolds(Least(matching), catalog[i]) })]

\* C2: with no override and a non-empty catalog the id chosen (before the
\* prefix cleanup) is the first entry of the first rule that matches any
\* entry, and the first entry when no rule matches
C2_TieredChoice ==
  pc = "cleanup"
  => /\ ~Truthy(GEMINI_MODEL)
     /\ available_models # <<>>
     /\ target_model = Some(ExpectedPick(available_models))

C2_Witness ==
  /\ pc = "cleanup"
  /\ Len(available_models) = 2
  /\ RuleHolds(3, available_models[1])
  /\ ~RuleHolds(2, available_models[1])
  /\ RuleHolds(2, available_models[2])
  /\ ~RuleHolds(1, available_models[2])
  /\ target_model = Some(available_models[2])

\* C3: with a key and no override, a listing that raised or produced no
\* generation-capable model leaves the default model and a Configured gateway
\* (neither genai.configure nor the constructor raised: config_error is FALSE)
C3_DiscoveryFailureGivesDefault ==
  (pc = "serving" /\ Truthy(GEMINI_API_KEY) /\ ~config_error
     /\ ~Truthy(GEMINI_MODEL)
     /\ (list_error \/ available_models = <<>>))
  => /\ model_name = DEFAULT_MODEL
     /\ active_model = Some(DEFAULT_MODEL)

\* the id without its leading 'models/'
StripLeadingPrefix(id) ==
  IF StartsWith(id, STR_MODELS)
  THEN SubSeq(id, Len(STR_MODELS) + 1, Len(id))
  ELSE id

\* C4: the cleanup removes the leading 'models/' of the chosen id and nothing
\* else, and its result never starts with 'models/'
C4_CleanupStripsLeadingPrefixOnly ==
  [][ (pc = "cleanup" /\ pc' = "default")
      => /\ target_model'.val = StripLeadingPrefix(target_model.val)
         /\ ~StartsWith(target_model'.val, STR_MODELS) ]_vars

NotConfiguredMessages ==
  { "Server Error: Model not initialized.", "Model not initialized" }

\* C5: on an Unconfigured gateway every request gets the not-initialized
\* error without a call to generate_content, and no request changes whether
\* the gateway holds a model
C5_UnconfiguredFailsFast ==
  /\ []( (Unconfigured /\ last.route # "none")
         => /\ last.key = "error"
            /\ last.status = 500
            /\ last.msg \in NotConfiguredMessages
            /\ ~last.called )
  /\ [](Unconfigured => in_flight = EmptyBag)
  /\ [][ pc = "serving" => (active_model' = active_model /\ pc' = pc) ]_vars

\* the constructor of line 125 raised: a key, a resolved name, no model object
C5_Witness ==
  /\ Unconfigured
  /\ config_error
  /\ model_name # STR_UNKNOWN
  /\ last.route = "translate"
  /\ last.body.kind = "object"
  /\ Get(last.body.fields, "text") # <<>>
  /\ last.msg = "Server Error: Model not initialized."

\* C6: on a Configured gateway translate with an empty or absent text
\* answers 400 'No text provided' and does not call generate_content
C6_TranslateEmptyTextInvalid ==
  /\ (Configured /\ last.route = "translate" /\ last.body.kind = "object"
        /\ Get(last.body.fields, "text") = <<>>)
     => /\ last.status = 400
        /\ last.key = "error"
        /\ last.msg = "No text provided"
        /\ ~last.called
  /\ \A w \in BagToSet(in_flight) :
       w.route = "translate" => Get(w.body.fields, "text") # <<>>

C6_Witness ==
  /\ Configured
  /\ last.route = "translate"
  /\ last.body.kind = "object"
  /\ "text" \notin DOMAIN last.body.fields
  /\ last.status = 400
  /\ \E w \in BagToSet(in_flight) : w.route = "translate"

\* C7: on a Configured gateway define with an empty or absent word answers
\* with an invalid-input error and does not call generate_content
C7_DefineEmptyWordInvalid ==
  (Configured /\ last.route = "define" /\ last.body.kind = "object"
     /\ Get(last.body.fields, "word") = <<>>)
  => /\ last.status = 400
     /\ last.key = "error"
     /\ ~last.called

\* C8: translate whose upstream call returned empty text answers
\* 'Empty response'; a translation is returned only for non-empty upstream
\* text and is that text
C8_EmptyUpstreamTextIsError ==
  /\ (Configured /\ last.route = "translate" /\ last.called
        /\ last.upstream.kind = "text" /\ last.upstream.text = <<>>)
     => (last.key = "error" /\ last.msg = "Empty response"
           /\ last.status = 500)
  /\ last.key = "translation"
     => /\ last.text # <<>>
        /\ last.upstream.kind = "text"
        /\ last.text = last.upstream.text

C8_Witness ==
  /\ Configured
  /\ last.route = "translate"
  /\ last.called
  /\ last.upstream = [kind |-> "text", text |-> <<>>]
  /\ last.msg = "Empty response"
  /\ in_flight # EmptyBag

\* C9: sanitizing a sanitized text changes nothing
C9_SanitizeIdempotent ==
  cpc = 2 => clean_again = clean_text

\* removing the html fence joins the grave accents around it into a fence
C9_Witness ==
  /\ cpc = 2
  /\ raw_text = <<BQ>> \o STR_FENCE_HTML \o <<BQ, BQ>>
  /\ Replace(raw_text, STR_FENCE_HTML, <<>>) = STR_FENCE
  /\ clean_text = <<>>

\* C10: every request ends in a success body or an {error} body returned by
\* the handler; no exception leaves the handler
C10_NoExceptionEscapes ==
  last.route # "none" => last.key \in {"translation", "definition", "error"}

====
